---- MODULE Spec2Model ----
(***************************************************************************)
(* Model of scripts/download_english_models.py: the ESPnet model catalog,  *)
(* download_file, extract_file, setup_model and main, over an abstract     *)
(* file system (download cache, extraction scratch directories, installed  *)
(* model directories and their config.json).                               *)
(*                                                                         *)
(* Representation.  A file name is the sequence of its dot-separated       *)
(* parts (<<"m", "tar", "gz">> is m.tar.gz) and a URL is the sequence of   *)
(* its slash-separated segments, each a file name, so url.split('/')[-1]   *)
(* and str.endswith are computed, not assumed.  An optional value (a dict  *)
(* lookup that may yield None, a file that may not exist) is a set of at   *)
(* most one element.                                                       *)
(***************************************************************************)
EXTENDS Naturals, Integers, Sequences, FiniteSets, TLC

VARIABLES
    cache,      \* data/models/<file name> -> content of that file
    dirs,       \* the directories that exist
    scratch,    \* scratch directory -> the files under it
    installed,  \* model directory -> the model files in it (config.json apart)
    config,     \* model directory -> its config.json (a set of at most one)
    unzip,      \* whether the host has an unzip executable
    pc,         \* position inside setup_model
    arg,        \* <<model_type, language>> of the current setup_model call
    stage,      \* pipeline stage of the current call
    ret,        \* what the current call returned
    r_download, \* what download_file returned in the current call
    r_extract,  \* what extract_file returned in the current call
    netcalls,   \* urlretrieve invocations made by the current call
    prev,       \* the call before the current one: its pair and result
    runs,       \* setup_model calls started so far
    mainpc,     \* position inside main
    attempts,   \* pairs main has called setup_model for, in order
    reports,    \* the per-pair success / failure lines main has printed
    err,        \* the step of the current call in which an error was raised
    xcall,      \* last direct application of extract_file: its inputs
    xret        \* ... and its result

vars == <<cache, dirs, scratch, installed, config, unzip, pc, arg, stage, ret,
          r_download, r_extract, netcalls, prev, runs, mainpc, attempts,
          reports, err, xcall, xret>>

fsVars == <<cache, dirs, scratch, installed, config, unzip>>
runVars == <<pc, arg, stage, ret, r_download, r_extract, netcalls, prev, runs, err>>
mainVars == <<mainpc, attempts, reports>>
unitVars == <<xcall, xret>>

(***************************************************************************)
(* Bounds                                                                  *)
(***************************************************************************)
\* setup_model calls in one behaviour
MaxRuns == 3
\* size of the remote archive, in urlretrieve blocks
RemoteBlocks == 2

(***************************************************************************)
(* Inputs                                                                  *)
(***************************************************************************)
Kinds == {"asr", "tts", "vad"}
Languages == {"english", "twi"}
Pairs == Kinds \X Languages

Last(s) == s[Len(s)]

\* s.endswith("." + suffix parts): the name ends with the parts and a dot precedes them
EndsWith(name, suffix) ==
    /\ Len(name) > Len(suffix)
    /\ SubSeq(name, Len(name) - Len(suffix) + 1, Len(name)) = suffix

(***************************************************************************)
(* Catalog                                                                 *)
(***************************************************************************)
AsrUrl ==
    << <<"https:">>, <<"">>, <<"zenodo", "org">>, <<"record">>, <<"3966501">>,
       <<"files">>,
       <<"asr_train_asr_transformer_e18_raw_bpe_sp_valid", "acc", "ave", "zip">> >>

TtsUrl ==
    << <<"https:">>, <<"">>, <<"zenodo", "org">>, <<"record">>, <<"4034069">>,
       <<"files">>,
       <<"tts_train_xvector_tacotron2_raw_phn_tacotron_g2p_en_no_space_train",
         "loss", "ave", "zip">> >>

ESPNET_DOWNLOADS ==
    [k \in {"asr", "tts"} |->
        [l \in {"english"} |->
            IF k = "asr"
            THEN [url |-> AsrUrl,
                  description |-> "LibriSpeech Transformer ASR model from ESPnet"]
            ELSE [url |-> TtsUrl,
                  description |-> "LJSpeech Tacotron2 TTS model from ESPnet"]]]

\* a lookup that falls back to the asr table for a model type it does not hold
Lookup_Fallback(model_type, language) ==
    LET table == IF model_type \in DOMAIN ESPNET_DOWNLOADS
                 THEN ESPNET_DOWNLOADS[model_type]
                 ELSE ESPNET_DOWNLOADS["asr"]
    IN  IF language \in DOMAIN table THEN {table[language]} ELSE {}

\* ESPNET_DOWNLOADS.get(model_type, {}).get(language): a set of at most one entry
Lookup(model_type, language) ==
    IF model_type \in DOMAIN ESPNET_DOWNLOADS
    THEN IF language \in DOMAIN ESPNET_DOWNLOADS[model_type]
         THEN {ESPNET_DOWNLOADS[model_type][language]}
         ELSE {}
    ELSE {}

Registered == {p \in Pairs : Lookup(p[1], p[2]) # {}}

\* filename = url.split('/')[-1]
Filename(url) == Last(url)

Archives == {Filename(i.url) : i \in UNION {Lookup(p[1], p[2]) : p \in Pairs}}

(***************************************************************************)
(* File contents                                                           *)
(***************************************************************************)
\* what a file in data/models can hold: nothing on disk, zero bytes, the first
\* blocks of the remote archive, a whole zip, a whole gzip-tar, or other bytes
Contents == {"absent", "empty", "partial", "zip", "tar", "junk"}

\* files inside the remote archives, as <<subdirectory, base name>>
RemoteFiles ==
    {<<"exp", "config.yaml">>, <<"exp", "model.pth">>, <<"", "irrelevant.txt">>}

\* files an earlier extraction may have left in a scratch directory
StaleFiles == {<<"old", "train.yaml">>, <<"", "notes.txt">>}

\* content of the target after d blocks of the remote archive were written
ContentOf(d) ==
    IF d = 0 THEN "empty" ELSE IF d < RemoteBlocks THEN "partial" ELSE "zip"

(***************************************************************************)
(* Paths                                                                   *)
(***************************************************************************)
data_dir == <<"data/models", "", "">>
model_dir(model_type, language) == <<"backend/src/espnet/models", model_type, language>>
extract_dir(model_type, language) == <<"data/models/tmp", model_type, language>>

ModelDirs == {model_dir(p[1], p[2]) : p \in Pairs}
ExtractDirs == {extract_dir(p[1], p[2]) : p \in Pairs}

\* data_dir / filename is a pathlib.Path; a caller may also pass a plain str
PathObj(name) == [type |-> "Path", name |-> name]
StrPath(name) == [type |-> "str", name |-> name]

\* Path.mkdir(parents=True, exist_ok=True): an existing directory is tolerated;
\* creating a missing one can raise OSError (fail)
mkdir(path, ds, fail) ==
    IF path \in ds THEN [raised |-> FALSE, dirs |-> ds]
    ELSE IF fail THEN [raised |-> TRUE, dirs |-> ds]
    ELSE [raised |-> FALSE, dirs |-> ds \cup {path}]

(***************************************************************************)
(* download_file                                                           *)
(***************************************************************************)
\* what the network does during one urlretrieve: whether the request is
\* answered, the Content-Length it reports (-1: none), the blocks it delivers
\* and whether the connection then breaks (reset) or closes normally
NetOutcomes ==
    {n \in [connect : BOOLEAN,
            total_size : {-1, 0, RemoteBlocks * 8192},
            delivered : 0..RemoteBlocks,
            reset : BOOLEAN] :
        /\ n.reset => n.delivered < RemoteBlocks
        /\ ~n.connect => (n.delivered = 0 /\ ~n.reset /\ n.total_size = -1)
        /\ n.total_size = 0 => n.delivered = 0}

\* int(a / b) of Python: true division, then truncation towards zero
TruncDiv(a, b) ==
    IF (a >= 0) = (b > 0) \/ a = 0
    THEN (IF a >= 0 THEN a ELSE -a) \div (IF b > 0 THEN b ELSE -b)
    ELSE -((IF a >= 0 THEN a ELSE -a) \div (IF b > 0 THEN b ELSE -b))

\* the progress hook: ZeroDivisionError when the reported total size is 0
progress_callback(count, block_size, total_size) ==
    IF total_size = 0
    THEN [raised |-> TRUE, percent |-> 0, mb |-> 0]
    ELSE [raised |-> FALSE,
          percent |-> TruncDiv(count * block_size * 100, total_size),
          mb |-> (count * block_size) \div (1024 * 1024)]

\* urllib.request.urlretrieve(url, target_path, progress_callback): the target is
\* opened for writing (so it exists, empty) as soon as the request is answered
\* and before the first hook call; block i is written before hook call i; an
\* error leaves what was written so far
urlretrieve(target, net) ==
    IF ~net.connect
    THEN [raised |-> TRUE, content |-> target]
    ELSE LET failing == {i \in 0..net.delivered :
                            progress_callback(i, 8192, net.total_size).raised}
         IN  IF failing # {}
             THEN [raised |-> TRUE,
                   content |-> ContentOf(CHOOSE i \in failing :
                                            \A j \in failing : i <= j)]
             ELSE IF net.reset
             THEN [raised |-> TRUE, content |-> ContentOf(net.delivered)]
             ELSE IF net.total_size >= 0 /\ net.delivered * 8192 < net.total_size
             THEN [raised |-> TRUE, content |-> ContentOf(net.delivered)]
             ELSE [raised |-> FALSE, content |-> ContentOf(net.delivered)]

\* download_file without its except clause: the error leaves the function
download_file_nocatch(target, net) ==
    LET r == urlretrieve(target, net)
    IN  [raised |-> r.raised, ok |-> ~r.raised, content |-> r.content]

\* download_file(url, target_path): any Exception becomes False
download_file(target, net) ==
    LET r == urlretrieve(target, net)
    IN  [raised |-> FALSE, ok |-> ~r.raised, content |-> r.content]

(***************************************************************************)
(* extract_file                                                            *)
(***************************************************************************)
\* extract_file(file_path, extract_dir).  file_path.endswith is a str method:
\* on a pathlib.Path line 47 raises AttributeError, which the except clause
\* turns into False.  content is what the file at file_path holds, files what
\* extract_dir holds, partial the members a truncated gzip-tar yields before
\* tarfile raises.
extract_file(file_path, content, files, hostUnzip, partial) ==
    IF file_path.type # "str"
    THEN [raised |-> FALSE, ok |-> FALSE, files |-> files]
    ELSE IF EndsWith(file_path.name, <<"zip">>)
    THEN IF hostUnzip /\ content = "zip"
         THEN [raised |-> FALSE, ok |-> TRUE, files |-> files \cup RemoteFiles]
         ELSE [raised |-> FALSE, ok |-> FALSE, files |-> files]
    ELSE IF EndsWith(file_path.name, <<"tar", "gz">>) \/ EndsWith(file_path.name, <<"tgz">>)
    THEN IF content = "tar"
         THEN [raised |-> FALSE, ok |-> TRUE, files |-> files \cup RemoteFiles]
         ELSE IF content = "partial"
         THEN [raised |-> FALSE, ok |-> FALSE, files |-> files \cup partial]
         ELSE [raised |-> FALSE, ok |-> FALSE, files |-> files]
    ELSE [raised |-> FALSE, ok |-> TRUE, files |-> files]

(***************************************************************************)
(* setup_model: helpers                                                    *)
(***************************************************************************)
\* an existence check that never finds the file
exists_Never(content) == FALSE

\* download_path.exists()
exists(content) == content # "absent"

\* the fetch step without its `return False`
FetchReturns_Never(ok) == FALSE

\* `if not download_file(url, download_path): return False`
FetchReturns(ok) == ~ok

\* `if not extract_file(download_path, extract_dir): return False`
ExtractReturns(ok) == ~ok

AllowList == {"model.json", "config.yaml", "train.yaml", "model.pth"}

\* the copy loop: every file of the scratch tree whose base name is in the
\* allow-list is copied, flat, into the model directory
Install(scratchFiles, modelFiles) ==
    modelFiles \cup {f[2] : f \in {g \in scratchFiles : g[2] \in AllowList}}

\* a config dict whose parameters follow the language instead of the kind
ConfigOf_ByLanguage(model_type, language, download_info, url) ==
    [model_type |-> model_type,
     language |-> language,
     description |-> download_info.description,
     placeholder |-> FALSE,
     version |-> "1.0.0",
     created |-> "2023-06-15",
     source |-> url,
     parameters |->
        [sampling_rate |-> IF language = "english" THEN 16000 ELSE 22050,
         features |-> IF language = "english" THEN "fbank" ELSE "mel",
         model_architecture |->
            IF language = "english" THEN "transformer" ELSE "tacotron2"]]

\* the config dict of lines 98-111
ConfigOf(model_type, language, download_info, url) ==
    [model_type |-> model_type,
     language |-> language,
     description |-> download_info.description,
     placeholder |-> FALSE,
     version |-> "1.0.0",
     created |-> "2023-06-15",
     source |-> url,
     parameters |->
        [sampling_rate |-> IF model_type = "asr" THEN 16000 ELSE 22050,
         features |-> IF model_type = "asr" THEN "fbank" ELSE "mel",
         model_architecture |->
            IF model_type = "asr" THEN "transformer" ELSE "tacotron2"]]

(***************************************************************************)
(* Initial state: a host on which nothing was run yet, or one on which an  *)
(* earlier tool left directories, scratch files and a model file behind;   *)
(* the download cache may already hold files of any content.               *)
(***************************************************************************)
NoPair == <<"", "">>
Bool(b) == IF b THEN "True" ELSE "False"

Init ==
    /\ cache \in [Archives -> {"absent", "junk"}]
    /\ \E stale \in BOOLEAN :
        /\ dirs = IF stale
                  THEN {data_dir} \cup {model_dir(p[1], p[2]) : p \in Registered}
                                  \cup {extract_dir(p[1], p[2]) : p \in Registered}
                  ELSE {}
        /\ scratch = [d \in ExtractDirs |-> IF stale /\ d \in dirs THEN StaleFiles ELSE {}]
        /\ installed = [d \in ModelDirs |-> IF stale /\ d \in dirs THEN {"model.json"} ELSE {}]
    /\ config = [d \in ModelDirs |-> {}]
    /\ unzip \in BOOLEAN
    /\ pc = "idle"
    /\ arg = NoPair
    /\ stage = "NONE"
    /\ ret = "none"
    /\ r_download = "none"
    /\ r_extract = "none"
    /\ netcalls = 0
    /\ prev = [pair |-> NoPair, ret |-> "none", stage |-> "NONE"]
    /\ runs = 0
    /\ err = "none"
    /\ mainpc = "idle"
    /\ attempts = <<>>
    /\ reports = <<>>
    /\ xcall = {}
    /\ xret = {}

(***************************************************************************)
(* setup_model                                                             *)
(***************************************************************************)
Info == CHOOSE i \in Lookup(arg[1], arg[2]) : TRUE
download_path == Filename(Info.url)
ThisModelDir == model_dir(arg[1], arg[2])
ThisExtractDir == extract_dir(arg[1], arg[2])

\* entering setup_model(p[1], p[2])
BeginRun(p) ==
    /\ runs < MaxRuns
    /\ pc' = "mkdirs"
    /\ arg' = p
    /\ stage' = "NONE"
    /\ ret' = "none"
    /\ r_download' = "none"
    /\ r_extract' = "none"
    /\ netcalls' = 0
    /\ err' = "none"
    /\ prev' = [pair |-> arg, ret |-> ret, stage |-> stage]
    /\ runs' = runs + 1
    /\ UNCHANGED fsVars
    /\ UNCHANGED unitVars

\* lines 62-66: data_dir.mkdir and model_dir.mkdir, outside any try
Setup_Dirs ==
    /\ pc = "mkdirs"
    /\ \E f1, f2 \in BOOLEAN :
        LET r1 == mkdir(data_dir, dirs, f1)
            r2 == mkdir(ThisModelDir, r1.dirs, f2)
        IN  /\ dirs' = IF r1.raised THEN r1.dirs ELSE r2.dirs
            /\ IF r1.raised \/ r2.raised
               THEN pc' = "raised" /\ err' = "mkdir"
               ELSE pc' = "lookup" /\ err' = err
    /\ UNCHANGED <<cache, scratch, installed, config, unzip>>
    /\ UNCHANGED <<arg, stage, ret, r_download, r_extract, netcalls, prev, runs>>
    /\ UNCHANGED mainVars
    /\ UNCHANGED unitVars

\* lines 68-76: the catalog lookup
Setup_Lookup ==
    /\ pc = "lookup"
    /\ IF Lookup(arg[1], arg[2]) = {}
       THEN pc' = "returned" /\ ret' = "False" /\ stage' = stage
       ELSE pc' = "fetch" /\ ret' = ret /\ stage' = "PENDING"
    /\ UNCHANGED fsVars
    /\ UNCHANGED <<arg, r_download, r_extract, netcalls, prev, runs, err>>
    /\ UNCHANGED mainVars
    /\ UNCHANGED unitVars

\* lines 78, 81-82: is the archive already in data/models?
Setup_FetchCheck ==
    /\ pc = "fetch"
    /\ IF exists(cache[download_path])
       THEN pc' = "mkextract" /\ stage' = "DOWNLOADED"
       ELSE pc' = "download" /\ stage' = "DOWNLOADING"
    /\ UNCHANGED fsVars
    /\ UNCHANGED <<arg, ret, r_download, r_extract, netcalls, prev, runs, err>>
    /\ UNCHANGED mainVars
    /\ UNCHANGED unitVars

\* lines 79-80: download_file(url, download_path)
Setup_Download ==
    /\ pc = "download"
    /\ \E net \in NetOutcomes :
        LET r == download_file(cache[download_path], net)
        IN  /\ cache' = [cache EXCEPT ![download_path] = r.content]
            /\ netcalls' = netcalls + 1
            /\ IF r.raised
               THEN /\ pc' = "raised"
                    /\ err' = "download"
                    /\ UNCHANGED <<ret, r_download, stage>>
               ELSE /\ r_download' = Bool(r.ok)
                    /\ err' = IF r.ok THEN err ELSE "download"
                    /\ stage' = IF r.ok THEN "DOWNLOADED" ELSE "FETCH_FAILED"
                    /\ IF FetchReturns(r.ok)
                       THEN pc' = "returned" /\ ret' = "False"
                       ELSE pc' = "mkextract" /\ ret' = ret
    /\ UNCHANGED <<dirs, scratch, installed, config, unzip>>
    /\ UNCHANGED <<arg, r_extract, prev, runs>>
    /\ UNCHANGED mainVars
    /\ UNCHANGED unitVars

\* lines 85-86: extract_dir.mkdir(exist_ok=True), outside any try
Setup_ExtractDir ==
    /\ pc = "mkextract"
    /\ \E f \in BOOLEAN :
        LET r == mkdir(ThisExtractDir, dirs, f)
        IN  /\ dirs' = r.dirs
            /\ IF r.raised
               THEN pc' = "raised" /\ err' = "mkdir" /\ stage' = stage
               ELSE pc' = "extract" /\ err' = err /\ stage' = "EXTRACTING"
    /\ UNCHANGED <<cache, scratch, installed, config, unzip>>
    /\ UNCHANGED <<arg, ret, r_download, r_extract, netcalls, prev, runs>>
    /\ UNCHANGED mainVars
    /\ UNCHANGED unitVars

\* lines 88-117: extract_file(download_path, extract_dir), and when it returns
\* True the copy loop, config.json and `return True`.  shutil.copy and the
\* open/json.dump of config.json are outside any try (io: the one that raises)
Setup_ExtractInstall ==
    /\ pc = "extract"
    /\ \E io \in {"none", "copy", "write"} :
        LET x == extract_file(PathObj(download_path), cache[download_path],
                              scratch[ThisExtractDir], unzip, {})
            matched == Install(x.files, {})
        IN  /\ scratch' = [scratch EXCEPT ![ThisExtractDir] = x.files]
            /\ IF x.raised
               THEN /\ pc' = "raised"
                    /\ err' = "extract"
                    /\ UNCHANGED <<ret, r_extract, stage, installed, config>>
               ELSE /\ r_extract' = Bool(x.ok)
                    /\ IF ExtractReturns(x.ok)
                       THEN /\ pc' = "returned"
                            /\ ret' = "False"
                            /\ err' = IF x.ok THEN err ELSE "extract"
                            /\ stage' = IF x.ok THEN "EXTRACTED" ELSE "EXTRACT_FAILED"
                            /\ UNCHANGED <<installed, config>>
                       ELSE IF io = "copy" /\ matched # {}
                       THEN /\ pc' = "raised"
                            /\ err' = "copy"
                            /\ stage' = IF x.ok THEN "EXTRACTED" ELSE "EXTRACT_FAILED"
                            /\ UNCHANGED <<ret, installed, config>>
                       ELSE IF io = "write"
                       THEN /\ pc' = "raised"
                            /\ err' = "write"
                            /\ stage' = IF x.ok THEN "EXTRACTED" ELSE "EXTRACT_FAILED"
                            /\ installed' = [installed EXCEPT ![ThisModelDir] =
                                                Install(x.files, installed[ThisModelDir])]
                            /\ UNCHANGED <<ret, config>>
                       ELSE /\ pc' = "returned"
                            /\ ret' = "True"
                            /\ err' = err
                            /\ stage' = IF x.ok THEN "INSTALLED" ELSE "EXTRACT_FAILED"
                            /\ installed' = [installed EXCEPT ![ThisModelDir] =
                                                Install(x.files, installed[ThisModelDir])]
                            /\ config' = [config EXCEPT ![ThisModelDir] =
                                            {ConfigOf(arg[1], arg[2], Info, Info.url)}]
    /\ UNCHANGED <<cache, dirs, unzip>>
    /\ UNCHANGED <<arg, r_download, netcalls, prev, runs>>
    /\ UNCHANGED mainVars
    /\ UNCHANGED unitVars

(***************************************************************************)
(* Callers: main, and a direct call of setup_model with any pair           *)
(***************************************************************************)
Quiet == pc \in {"idle", "returned", "raised"}
MainRunning == mainpc \in {"call_asr", "in_asr", "call_tts", "in_tts"}

\* setup_model(k, l) called on its own
DirectCall(k, l) ==
    /\ Quiet
    /\ ~MainRunning
    /\ BeginRun(<<k, l>>)
    /\ UNCHANGED mainVars

\* lines 119-121: main starts
MainStart ==
    /\ Quiet
    /\ ~MainRunning
    /\ runs + 2 <= MaxRuns
    /\ mainpc' = "call_asr"
    /\ attempts' = <<>>
    /\ reports' = <<>>
    /\ UNCHANGED fsVars
    /\ UNCHANGED runVars
    /\ UNCHANGED unitVars

\* lines 124 and 130: the two hard-coded calls
MainPair(at) == IF at = "call_asr" THEN <<"asr", "english">> ELSE <<"tts", "english">>

MainCall ==
    /\ mainpc \in {"call_asr", "call_tts"}
    /\ BeginRun(MainPair(mainpc))
    /\ mainpc' = IF mainpc = "call_asr" THEN "in_asr" ELSE "in_tts"
    /\ attempts' = Append(attempts, MainPair(mainpc))
    /\ UNCHANGED reports

\* a main that stops at the first pair that failed
MainNext_Abort(at, ok) == IF at = "in_asr" /\ ok THEN "call_tts" ELSE "done"

\* where main goes once the call made at `at` returned ok
MainNext(at, ok) == IF at = "in_asr" THEN "call_tts" ELSE "done"

\* lines 124-133: the success / failure line of the pair, then on to the next
MainReport ==
    /\ mainpc \in {"in_asr", "in_tts"}
    /\ pc = "returned"
    /\ reports' = Append(reports,
                    [pair |-> arg,
                     line |-> IF ret = "True" THEN "successful" ELSE "failed"])
    /\ mainpc' = MainNext(mainpc, ret = "True")
    /\ pc' = "idle"
    /\ UNCHANGED fsVars
    /\ UNCHANGED <<arg, stage, ret, r_download, r_extract, netcalls, prev, runs, err>>
    /\ UNCHANGED attempts
    /\ UNCHANGED unitVars

\* an exception that left setup_model leaves main too: the process ends with a
\* traceback
MainCrash ==
    /\ mainpc \in {"in_asr", "in_tts"}
    /\ pc = "raised"
    /\ mainpc' = "crashed"
    /\ pc' = "idle"
    /\ UNCHANGED fsVars
    /\ UNCHANGED <<arg, stage, ret, r_download, r_extract, netcalls, prev, runs, err>>
    /\ UNCHANGED <<attempts, reports>>
    /\ UNCHANGED unitVars

Next ==
    \/ \E k \in Kinds, l \in Languages : DirectCall(k, l)
    \/ MainStart
    \/ MainCall
    \/ MainReport
    \/ MainCrash
    \/ Setup_Dirs
    \/ Setup_Lookup
    \/ Setup_FetchCheck
    \/ Setup_Download
    \/ Setup_ExtractDir
    \/ Setup_ExtractInstall

Spec == Init /\ [][Next]_vars

(***************************************************************************)
(* extract_file and the metadata block applied on their own, to inputs     *)
(* drawn from small sets                                                   *)
(***************************************************************************)
TestNames ==
    {<<"m", "zip">>, <<"m", "tar", "gz">>, <<"m", "tgz">>, <<"m", "rar">>, <<"m">>}
TestPaths == {PathObj(n) : n \in TestNames} \cup {StrPath(n) : n \in TestNames}
TestPartials == {{}, {<<"exp", "config.yaml">>}}

\* extract_file(file_path, d) where the file holds content
ExtractCall(file_path, content, d, partial) ==
    LET x == extract_file(file_path, content, scratch[d], unzip, partial)
    IN  /\ xcall' = {[file_path |-> file_path, content |-> content, dir |-> d,
                      before |-> scratch[d]]}
        /\ xret' = {[raised |-> x.raised, ok |-> x.ok]}
        /\ scratch' = [scratch EXCEPT ![d] = x.files]
        /\ UNCHANGED <<cache, dirs, installed, config, unzip>>
        /\ UNCHANGED runVars
        /\ UNCHANGED mainVars

NextExtract ==
    \E file_path \in TestPaths, content \in Contents, partial \in TestPartials :
        \E p \in Registered : ExtractCall(file_path, content, extract_dir(p[1], p[2]), partial)

SpecExtract == Init /\ [][NextExtract]_vars

\* lines 65 and 97-114: config.json of (model_type, language), for a catalog
\* entry download_info, written into model_dir
WriteMeta(model_type, language, download_info) ==
    /\ config' = [config EXCEPT ![model_dir(model_type, language)] =
                    {ConfigOf(model_type, language, download_info, download_info.url)}]
    /\ UNCHANGED <<cache, dirs, scratch, installed, unzip>>
    /\ UNCHANGED runVars
    /\ UNCHANGED mainVars
    /\ UNCHANGED unitVars

NextMeta ==
    \E k \in Kinds, l \in Languages :
        \E i \in UNION {Lookup(p[1], p[2]) : p \in Pairs} : WriteMeta(k, l, i)

SpecMeta == Init /\ [][NextMeta]_vars

(***************************************************************************)
(* Claims                                                                  *)
(***************************************************************************)
FailedStages == {"FETCH_FAILED", "EXTRACT_FAILED"}

\* one step of the per-pair pipeline: a cache hit goes from PENDING straight to
\* DOWNLOADED, and a new call starts again from NONE
StageEdges ==
    {<<"NONE", "PENDING">>, <<"PENDING", "DOWNLOADING">>, <<"PENDING", "DOWNLOADED">>,
     <<"DOWNLOADING", "DOWNLOADED">>, <<"DOWNLOADING", "FETCH_FAILED">>,
     <<"DOWNLOADED", "EXTRACTING">>, <<"EXTRACTING", "EXTRACT_FAILED">>,
     <<"EXTRACTING", "INSTALLED">>}

C1_StageStep ==
    \/ stage' = stage
    \/ pc' = "mkdirs" /\ stage' = "NONE"
    \/ <<stage, stage'>> \in StageEdges

C1_NoLaterStep ==
    (stage \in FailedStages /\ pc' # "mkdirs") =>
        UNCHANGED <<cache, dirs, scratch, installed, config>>

C1_WriteOnlyAfterSuccess ==
    (config' # config \/ installed' # installed) =>
        /\ stage' = "INSTALLED"
        /\ r_extract' = "True"
        /\ r_download = "True" \/ (netcalls = 0 /\ cache[download_path] # "absent")

\* C1: the stages of a setup_model call follow PENDING -> DOWNLOADING ->
\* DOWNLOADED -> EXTRACTING -> (EXTRACTED ->) INSTALLED; a failed fetch or a
\* failed extraction ends the call with False and nothing on disk changes
\* after it in that call; a model file is copied or config.json written only
\* in a step that ends INSTALLED, after the archive was obtained (downloaded or
\* found in the cache) and extract_file returned True.
C1_Pipeline ==
    /\ [](stage \in FailedStages => (pc \in {"returned", "idle"} /\ ret = "False"))
    /\ [](r_download = "False" => stage = "FETCH_FAILED")
    /\ [](r_extract = "False" => stage = "EXTRACT_FAILED")
    /\ [][C1_StageStep /\ C1_NoLaterStep /\ C1_WriteOnlyAfterSuccess]_vars

\* a call ended by a failed extraction, right after a call ended by a failed fetch
C1_Witness ==
    /\ stage = "EXTRACT_FAILED"
    /\ pc = "returned"
    /\ ret = "False"
    /\ prev.stage = "FETCH_FAILED"
    /\ prev.ret = "False"

Unregistered == {p \in Pairs : p[1] \notin {"asr", "tts"} \/ p[2] # "english"}

\* C2: a setup_model call for a pair the catalog does not hold never starts a
\* fetch (no download_file call, no stage of the pipeline), changes no file of
\* the cache, of a scratch directory or of a model directory, writes no
\* config.json, never returns True, and returns False once it reaches the
\* lookup; and the lookup of every registered pair yields one entry whose URL
\* and description are not empty.
C2_CatalogMiss ==
    /\ [](arg \in Unregistered =>
            /\ pc \in {"mkdirs", "lookup", "returned", "raised", "idle"}
            /\ netcalls = 0
            /\ stage = "NONE"
            /\ r_download = "none"
            /\ r_extract = "none"
            /\ ret # "True"
            /\ (pc = "returned" => ret = "False"))
    /\ [][(arg' \in Unregistered) =>
            UNCHANGED <<cache, scratch, installed, config>>]_vars
    /\ [](\A p \in Pairs \ Unregistered :
            /\ Cardinality(Lookup(p[1], p[2])) = 1
            /\ \A i \in Lookup(p[1], p[2]) :
                /\ Len(i.url) > 0
                /\ Len(Filename(i.url)) > 0
                /\ i.description # "")

\* setup_model("vad", "twi") returned False
C2_Witness ==
    /\ arg = <<"vad", "twi">>
    /\ pc = "returned"
    /\ ret = "False"

\* C3: when the archive file exists as the call reaches the fetch step, the
\* step makes no network call, leaves the file as it is and goes on to the
\* extraction; for the rest of that call the file stays unchanged and the
\* call's network calls stay at zero.
C3_FetchIdempotent ==
    /\ [][(pc = "fetch" /\ cache[download_path] # "absent") =>
            /\ pc' = "mkextract"
            /\ stage' = "DOWNLOADED"
            /\ netcalls' = 0
            /\ cache' = cache]_vars
    /\ [][(pc \in {"mkextract", "extract"} /\ r_download = "none" /\ pc' # "mkdirs") =>
            /\ netcalls' = 0
            /\ cache' = cache]_vars
    /\ []((pc \in {"mkextract", "extract"} /\ r_download = "none") => netcalls = 0)

\* the call is at extract_file with a cached file that is no archive, and made
\* no download
C3_Witness ==
    /\ pc = "extract"
    /\ r_download = "none"
    /\ netcalls = 0
    /\ cache[download_path] = "junk"

AsrEnglish == <<"asr", "english">>
TtsEnglish == <<"tts", "english">>

\* C4: main calls setup_model for (asr, english) and then (tts, english) and
\* for nothing else; whatever the asr call returns, main prints its line and
\* goes on to the tts call; when main is done both pairs were attempted and
\* each has its success or failure line, the line agreeing with what the call
\* returned.
C4_Driver ==
    /\ [](attempts \in {<<>>, <<AsrEnglish>>, <<AsrEnglish, TtsEnglish>>})
    /\ [](Len(reports) <= Len(attempts))
    /\ [](\A i \in 1..Len(reports) : reports[i].pair = attempts[i])
    /\ [](mainpc = "done" => (attempts = <<AsrEnglish, TtsEnglish>> /\ Len(reports) = 2))
    /\ [](mainpc \in {"call_tts", "in_tts"} => Len(reports) >= 1)
    /\ [][(mainpc = "in_asr" /\ pc = "returned") =>
            (mainpc' = "call_tts"
             /\ Len(reports') = 1
             /\ reports'[1].line = IF ret = "True" THEN "successful" ELSE "failed")]_vars
    /\ [][(mainpc = "call_tts") => (mainpc' = "in_tts" /\ arg' = TtsEnglish)]_vars

\* main is done, the asr call failed at the fetch and the tts call was made
\* and reported all the same
C4_Witness ==
    /\ mainpc = "done"
    /\ Len(reports) = 2
    /\ reports[1] = [pair |-> AsrEnglish, line |-> "failed"]
    /\ reports[2].pair = TtsEnglish
    /\ prev.stage = "FETCH_FAILED"

C6_Claim ==
    (/\ pc = "returned"
     /\ arg \in Registered
     /\ cache[download_path] = "zip"
     /\ unzip
     /\ scratch[ThisExtractDir] \subseteq RemoteFiles
     /\ "model.json" \notin installed[ThisModelDir])
    => (/\ ret = "True"
        /\ installed[ThisModelDir] = {"config.yaml", "model.pth"}
        /\ config[ThisModelDir] # {})

\* C7 as stated: the second of two successive calls for the same pair, with
\* the whole archive in the cache and unzip on the host, does not fail.
C7_Claim ==
    (/\ pc = "returned"
     /\ arg \in Registered
     /\ prev.pair = arg
     /\ cache[download_path] = "zip"
     /\ unzip)
    => ret = "True"

\* C8: every config.json lies in the model directory of the model_type and
\* language it records, has placeholder false, and has the parameters of its
\* kind whatever the language: asr 16000 / fbank / transformer, tts 22050 /
\* mel / tacotron2.
C8_Metadata ==
    \A d \in ModelDirs : \A c \in config[d] :
        /\ d = <<"backend/src/espnet/models", c.model_type, c.language>>
        /\ c.placeholder = FALSE
        /\ c.model_type = "asr" =>
            c.parameters = [sampling_rate |-> 16000, features |-> "fbank",
                            model_architecture |-> "transformer"]
        /\ c.model_type = "tts" =>
            c.parameters = [sampling_rate |-> 22050, features |-> "mel",
                            model_architecture |-> "tacotron2"]

\* config.json written for asr and for tts, each in two languages
C8_Witness ==
    /\ \A k \in {"asr", "tts"} : \A l \in Languages : config[model_dir(k, l)] # {}
    /\ \E c \in config[model_dir("asr", "twi")] : c.parameters.sampling_rate = 16000
    /\ \E c \in config[model_dir("tts", "twi")] : c.parameters.features = "mel"

OtherExtension(name) ==
    /\ ~EndsWith(name, <<"zip">>)
    /\ ~EndsWith(name, <<"tar", "gz">>)
    /\ ~EndsWith(name, <<"tgz">>)

\* C9 as stated: for an archive path whose extension is none of .zip, .tar.gz,
\* .tgz, extract_file leaves the output directory as it was and reports
\* success.
C9_Claim ==
    \A c \in xcall : OtherExtension(c.file_path.name) =>
        /\ \A r \in xret : r.ok /\ ~r.raised
        /\ scratch[c.dir] = c.before

\* C10 as stated: a call that ended in a fetch failure leaves no file at the
\* cache path.
C10_Claim ==
    (pc = "returned" /\ stage = "FETCH_FAILED") => cache[download_path] = "absent"

====
